---- MODULE Spec2Model ----
(***************************************************************************)
(* FP-growth frequent-itemset mining and association-rule generation, as   *)
(* implemented in src/fpgrowth/src/main.rs.                                *)
(*                                                                         *)
(* Rc<RefCell<FPNode>> handles are modelled as indices into the sequence   *)
(* of nodes of the tree that created them (index 1 is the root); Nil       *)
(* stands for Option::None.  A HashMap is a function whose DOMAIN is its   *)
(* key set; the order in which a HashMap is iterated is a nondeterministic *)
(* choice wherever the code's result can depend on it.                     *)
(***************************************************************************)
EXTENDS Integers, Sequences, FiniteSets, TLC

\* The item alphabet the inputs are drawn from (type Transaction = Vec<char>),
\* in the order of the characters.
ItemOrder == <<"a", "b", "c">>

Items == {ItemOrder[k] : k \in 1..Len(ItemOrder)}

\* Largest number of transactions in an input list.
MaxTrans == 3

\* Option::None for Option<Rc<RefCell<FPNode>>>.
Nil == 0

\* Option::None for FPNode.item (the root carries no item).
NoItem == "none"

\* Index of FPTree.root in the node sequence of its tree.
Root == 1

Range(s) == {s[k] : k \in 1..Len(s)}

ToSet(s) == {s[k] : k \in 1..Len(s)}

\* HashMap::new()
EmptyMap == [x \in {} |-> Nil]

\* HashMap::insert(k, v)
Insert(m, k, v) == [x \in (DOMAIN m) \cup {k} |-> IF x = k THEN v ELSE m[x]]

(***************************************************************************)
(* FPNode, HeaderTableEntry, FPTree                                        *)
(***************************************************************************)
FPNode_new(item, parent) ==
    [item |-> item, count |-> 0, parent |-> parent,
     children |-> EmptyMap, node_link |-> Nil]

HeaderTableEntry_new(support) == [support |-> support, head |-> Nil]

FPTree_new == [nodes |-> <<FPNode_new(NoItem, Nil)>>, header_table |-> EmptyMap]

\* The walk `while current.borrow().node_link.is_some()` of add_transaction:
\* the last node of the occurrence chain that starts at n.
RECURSIVE ChainLast(_, _)
ChainLast(nodes, n) ==
    IF nodes[n].node_link = Nil THEN n ELSE ChainLast(nodes, nodes[n].node_link)

\* A new child that always becomes the head of its item's header entry and is
\* never linked behind the nodes created before it.
NewChild_head_only(tree, cur, item) ==
    LET new == Len(tree.nodes) + 1
    IN  [nodes |-> Append([tree.nodes EXCEPT ![cur].children = Insert(@, item, new)],
                          FPNode_new(item, cur)),
         header_table |-> [tree.header_table EXCEPT ![item].head = new]]

\* The `!node.children.contains_key(&item)` branch of add_transaction: a new
\* child of cur is created, inserted in cur's child map and appended to the
\* occurrence chain of its item.
NewChild(tree, cur, item) ==
    LET new == Len(tree.nodes) + 1
        nodes1 == Append([tree.nodes EXCEPT ![cur].children = Insert(@, item, new)],
                         FPNode_new(item, cur))
        entry == tree.header_table[item]
    IN  IF entry.head = Nil
        THEN [nodes |-> nodes1,
              header_table |-> [tree.header_table EXCEPT ![item].head = new]]
        ELSE [nodes |-> [nodes1 EXCEPT ![ChainLast(nodes1, entry.head)].node_link = new],
              header_table |-> tree.header_table]

\* The body of `for item in transaction` from current_node = cur on.
RECURSIVE add_from(_, _, _, _)
add_from(tree, cur, transaction, count) ==
    IF transaction = <<>> THEN tree
    ELSE LET item == Head(transaction)
             t1 == IF item \in DOMAIN tree.nodes[cur].children
                   THEN tree ELSE NewChild(tree, cur, item)
             child == t1.nodes[cur].children[item]
             t2 == [t1 EXCEPT !.nodes[child].count = @ + count]
         IN  add_from(t2, child, Tail(transaction), count)

add_transaction(tree, transaction, count) == add_from(tree, Root, transaction, count)

\* Number of positions of transaction t holding item i.
Occurrences(t, i) == Cardinality({k \in 1..Len(t) : t[k] = i})

RECURSIVE CountItem(_, _)
CountItem(transactions, i) ==
    IF transactions = <<>> THEN 0
    ELSE Occurrences(Head(transactions), i) + CountItem(Tail(transactions), i)

\* A map of counts that starts with an entry of 0 for every item of the
\* alphabet instead of starting empty.
item_counts_prefilled(transactions) ==
    [i \in Items |-> CountItem(transactions, i)]

\* build, first loop: `*item_counts.entry(*item).or_insert(0) += 1`.
item_counts(transactions) ==
    [i \in UNION {Range(transactions[k]) : k \in 1..Len(transactions)}
        |-> CountItem(transactions, i)]

\* A header table that keeps only the items counted more than min_support
\* times.
header_of_strict(counts, min_support) ==
    [i \in {j \in DOMAIN counts : counts[j] > min_support}
        |-> HeaderTableEntry_new(counts[i])]

\* The header table filled from a map of counts: `if *count >= min_support`.
\* The loop iterates a HashMap, but it only inserts into another map, so the
\* iteration order leaves no trace.
header_of(counts, min_support) ==
    [i \in {j \in DOMAIN counts : counts[j] >= min_support}
        |-> HeaderTableEntry_new(counts[i])]

\* `sort_by(|a, b| b.1.cmp(&a.1))`: a stable sort by descending support; x is
\* placed behind every element already placed whose support is not smaller.
InsertDesc(s, x, header) ==
    LET pos == Cardinality({j \in 1..Len(s) :
                              header[s[j]].support >= header[x].support})
    IN  SubSeq(s, 1, pos) \o <<x>> \o SubSeq(s, pos + 1, Len(s))

RECURSIVE SortDesc(_, _, _)
SortDesc(done, todo, header) ==
    IF todo = <<>> THEN done
    ELSE SortDesc(InsertDesc(done, Head(todo), header), Tail(todo), header)

\* filter_map over the header table followed by the stable sort.
sorted_items_of(transaction, header) ==
    SortDesc(<<>>, SelectSeq(transaction, LAMBDA i : i \in DOMAIN header), header)

\* The insertion loop shared by build (weight 1) and by fp_growth (weight =
\* the path's count): base is a sequence of <<path, count>>.
RECURSIVE insert_all(_, _)
insert_all(tree, base) ==
    IF base = <<>> THEN tree
    ELSE LET sorted == sorted_items_of(Head(base)[1], tree.header_table)
         IN  insert_all(IF sorted = <<>> THEN tree
                        ELSE add_transaction(tree, sorted, Head(base)[2]),
                        Tail(base))

\* FPTree::build on `tree`: the header table is cleared and refilled, the
\* nodes under the root are kept as they are.
build(tree, transactions, min_support) ==
    insert_all([nodes |-> tree.nodes,
                header_table |-> header_of(item_counts(transactions), min_support)],
               [k \in 1..Len(transactions) |-> <<transactions[k], 1>>])

(***************************************************************************)
(* FPTree::fp_growth: one iteration of `for (item, support) in sorted_items`*)
(***************************************************************************)
\* `path.reverse()` left out.
Reverse_forgotten(s) == s

RECURSIVE Reverse(_)
Reverse(s) == IF s = <<>> THEN <<>> ELSE Append(Reverse(Tail(s)), Head(s))

\* `while let Some(parent) = parent_option`: the items met walking up from
\* node n to the root, in the order they are pushed.
RECURSIVE path_up(_, _)
path_up(nodes, n) ==
    IF n = Nil THEN <<>>
    ELSE (IF nodes[n].item # NoItem THEN <<nodes[n].item>> ELSE <<>>)
         \o path_up(nodes, nodes[n].parent)

\* The walk up starts at the occurrence node itself instead of its parent.
RECURSIVE chain_base_from_node(_, _)
chain_base_from_node(nodes, n) ==
    IF n = Nil THEN <<>>
    ELSE LET path == Reverse(path_up(nodes, n))
         IN  (IF path # <<>> THEN << <<path, nodes[n].count>> >> ELSE <<>>)
             \o chain_base_from_node(nodes, nodes[n].node_link)

\* `while let Some(current_node) = current_node_option`: one <<path, count>>
\* per node of the occurrence chain from n on, unless its path is empty.
RECURSIVE chain_base(_, _)
chain_base(nodes, n) ==
    IF n = Nil THEN <<>>
    ELSE LET path == Reverse(path_up(nodes, nodes[n].parent))
         IN  (IF path # <<>> THEN << <<path, nodes[n].count>> >> ELSE <<>>)
             \o chain_base(nodes, nodes[n].node_link)

conditional_pattern_base(tree, item) ==
    chain_base(tree.nodes, tree.header_table[item].head)

\* Every path counted once, whatever its weight.
RECURSIVE WeightOf_unweighted(_, _)
WeightOf_unweighted(base, i) ==
    IF base = <<>> THEN 0
    ELSE Occurrences(Head(base)[1], i) + WeightOf_unweighted(Tail(base), i)

RECURSIVE WeightOf(_, _)
WeightOf(base, i) ==
    IF base = <<>> THEN 0
    ELSE Occurrences(Head(base)[1], i) * Head(base)[2] + WeightOf(Tail(base), i)

\* `*conditional_item_counts.entry(*item).or_insert(0) += count`
conditional_item_counts(base) ==
    [i \in UNION {Range(base[k][1]) : k \in 1..Len(base)} |-> WeightOf(base, i)]

\* The conditional tree of a non-empty conditional pattern base.
conditional_tree_of(base, min_support) ==
    insert_all([nodes |-> FPTree_new.nodes,
                header_table |-> header_of(conditional_item_counts(base), min_support)],
               base)

\* `new_prefix = prefix.clone(); new_prefix.push(item)`
new_prefix_of(prefix, item) == Append(prefix, item)

\* The values `sorted_items` can take at the entry of fp_growth: the header
\* table is collected in the iteration order of the HashMap and sorted stably
\* by ascending support, so items of equal support come in any order.
RECURSIVE ascending_orders(_, _)
ascending_orders(header, todo) ==
    IF todo = {} THEN {<<>>}
    ELSE LET least == {i \in todo : \A j \in todo :
                                       header[i].support <= header[j].support}
         IN  UNION {{<<i>> \o s : s \in ascending_orders(header, todo \ {i})} :
                      i \in least}

sorted_items_choices(header) == ascending_orders(header, DOMAIN header)

\* The activation record of one call of FPTree::fp_growth.
Frame(tree, prefix, sorted_items) ==
    [tree |-> tree, prefix |-> prefix, sorted_items |-> sorted_items]

\* An iteration that takes the head of the occurrence chain out of the header
\* entry (`head.take()`) instead of cloning it.
next_iteration_taking(frame) ==
    [frame EXCEPT !.sorted_items = Tail(@),
                  !.tree.header_table[Head(frame.sorted_items)].head = Nil]

\* The call's state after the iteration for the first item of sorted_items:
\* the loop moves on, the tree is only read (`&self`, `borrow()`,
\* `head.clone()`).
next_iteration(frame) == [frame EXCEPT !.sorted_items = Tail(@)]

(***************************************************************************)
(* Reference counts: every handle of the code is a strong Rc                *)
(***************************************************************************)
\* The nodes node n holds an Rc to: its parent (field parent), its children
\* (the values of field children) and the next node of its item (node_link).
held_by(nodes, n) ==
    ({nodes[n].parent, nodes[n].node_link} \ {Nil})
    \cup {nodes[n].children[i] : i \in DOMAIN nodes[n].children}

\* The strong count of node n when the nodes of `alive` are allocated and the
\* FPTree value holds its handles (root and the heads of the header table)
\* iff tree_alive.  Fields parent, children and node_link hold one handle
\* per target, so a node contributes one count per field that points to n.
strong_count(tree, alive, tree_alive, n) ==
    LET nodes == tree.nodes
    IN  Cardinality({m \in alive : nodes[m].parent = n})
        + Cardinality({m \in alive : n \in {nodes[m].children[i] :
                                               i \in DOMAIN nodes[m].children}})
        + Cardinality({m \in alive : nodes[m].node_link = n})
        + (IF tree_alive
           THEN (IF n = Root THEN 1 ELSE 0)
                + Cardinality({i \in DOMAIN tree.header_table :
                                  tree.header_table[i].head = n})
           ELSE 0)

\* Drop of an FPTree: its own handles go, a node whose strong count has
\* reached zero is freed and the handles in its fields go with it.  The
\* result is the set of nodes that stay allocated.
RECURSIVE alive_after_drop(_, _)
alive_after_drop(tree, alive) ==
    LET kept == {n \in alive : strong_count(tree, alive, FALSE, n) > 0}
    IN  IF kept = alive THEN alive ELSE alive_after_drop(tree, kept)

left_after_drop(tree) ==
    Cardinality(alive_after_drop(tree, 1..Len(tree.nodes)))

(***************************************************************************)
(* generate_rules                                                          *)
(***************************************************************************)
RECURSIVE GCD(_, _)
GCD(a, b) == IF b = 0 THEN a ELSE GCD(b, a % b)

\* `*support as f64 / subset_support as f64`, kept as the fraction in lowest
\* terms: two quotients of small integers are the same f64 exactly when they
\* are the same fraction.
confidence_of(support, subset_support) ==
    LET g == GCD(support, subset_support)
    IN  <<support \div g, subset_support \div g>>

\* `confidence >= min_confidence` for the fraction c = <<numerator, denominator>>.
meets_confidence(support, subset_support, c) ==
    support * c[2] >= c[1] * subset_support

\* The inner loop of generate_all_subsets: the items whose bit is set in mask,
\* in the order of the itemset.
RECURSIVE subset_of_mask(_, _)
subset_of_mask(itemset, mask) ==
    IF itemset = <<>> THEN <<>>
    ELSE (IF mask % 2 = 1 THEN <<Head(itemset)>> ELSE <<>>)
         \o subset_of_mask(Tail(itemset), mask \div 2)

RECURSIVE Pow2(_)
Pow2(n) == IF n = 0 THEN 1 ELSE 2 * Pow2(n - 1)

generate_all_subsets(itemset) ==
    [m \in 1..Pow2(Len(itemset)) |-> subset_of_mask(itemset, m - 1)]

\* `support_map.insert(itemset.clone(), *support)` for every record in order.
RECURSIVE support_map_from(_, _)
support_map_from(map, frequent_itemsets) ==
    IF frequent_itemsets = <<>> THEN map
    ELSE support_map_from(Insert(map, Head(frequent_itemsets)[1], Head(frequent_itemsets)[2]),
                          Tail(frequent_itemsets))

\* A map that is filled while the records are walked holds only the records
\* up to the one in hand.
support_map_fused(frequent_itemsets, k) ==
    support_map_from(EmptyMap, SubSeq(frequent_itemsets, 1, k))

\* The support map in use while record k is processed: it is complete before
\* the loop over the records starts.
support_map_at(frequent_itemsets, k) ==
    support_map_from(EmptyMap, frequent_itemsets)

\* `*support_map.get(subset).unwrap_or(&0)`
subset_support_of(support_map, subset) ==
    IF subset \in DOMAIN support_map THEN support_map[subset] ELSE 0

\* `for subset in &subsets` for one record.
RECURSIVE rules_of_subsets(_, _, _, _, _)
rules_of_subsets(subsets, itemset, support, support_map, c) ==
    IF subsets = <<>> THEN <<>>
    ELSE LET subset == Head(subsets)
             consequent == SelectSeq(itemset, LAMBDA i : i \notin Range(subset))
             subset_support == subset_support_of(support_map, subset)
             rest == rules_of_subsets(Tail(subsets), itemset, support, support_map, c)
         IN  IF subset = <<>> \/ Len(subset) = Len(itemset) THEN rest
             ELSE IF consequent = <<>> THEN rest
             ELSE IF subset_support = 0 THEN rest
             ELSE IF meets_confidence(support, subset_support, c)
                  THEN << <<subset, consequent, confidence_of(support, subset_support)>> >>
                       \o rest
                  ELSE rest

\* `for (itemset, support) in frequent_itemsets` from record k on.
RECURSIVE rules_from(_, _, _)
rules_from(frequent_itemsets, k, c) ==
    IF k > Len(frequent_itemsets) THEN <<>>
    ELSE LET itemset == frequent_itemsets[k][1]
             support == frequent_itemsets[k][2]
         IN  (IF Len(itemset) <= 1 THEN <<>>
              ELSE rules_of_subsets(generate_all_subsets(itemset), itemset, support,
                                    support_map_at(frequent_itemsets, k), c))
             \o rules_from(frequent_itemsets, k + 1, c)

generate_rules(frequent_itemsets, min_confidence) ==
    rules_from(frequent_itemsets, 1, min_confidence)

(***************************************************************************)
(* The top-level fp_growth and its inputs                                  *)
(***************************************************************************)
\* `(min_support * transactions.len() as f64).ceil() as usize` for the
\* fraction frac = <<numerator, denominator>>.  For the fractions of Fracs and
\* the lengths of the lists modelled the ceiling of the f64 product is the
\* ceiling of the rational product.
min_support_count(frac, len) == (frac[1] * len + frac[2] - 1) \div frac[2]

\* The min_support fractions of the callers: every n/d in (0, 1], and the 0.4
\* that main passes.
Fracs == ({<<n, d>> : n \in 1..MaxTrans, d \in 1..MaxTrans} \cap
          {f \in (Nat \X Nat) : f[1] <= f[2]}) \cup {<<2, 5>>}

\* The min_confidence fraction of the caller: main passes 0.75.
Confs == {<<3, 4>>}

\* Duplicate-free item sequences: the transactions the callers pass.
TxPool ==
    UNION {{t \in [1..n -> Items] : \A i, j \in 1..n : i # j => t[i] # t[j]} :
            n \in 0..Cardinality(Items)}

RECURSIVE Flatten(_)
Flatten(lists) == IF lists = <<>> THEN <<>> ELSE Head(lists) \o Flatten(Tail(lists))

FirstAt(s, i) == CHOOSE k \in 1..Len(s) : s[k] = i /\ \A j \in 1..(k - 1) : s[j] # i

\* The code touches items only through == and hashing, never through their
\* order, so its behaviour on a list is its behaviour on any renaming of the
\* list.  One list per renaming class is kept: the one whose items make
\* their first appearance in the order of ItemOrder.
FirstUseOrdered(lists) ==
    LET flat == Flatten(lists)
    IN  \A k \in 2..Len(ItemOrder) :
           ItemOrder[k] \in Range(flat) =>
              /\ ItemOrder[k - 1] \in Range(flat)
              /\ FirstAt(flat, ItemOrder[k - 1]) < FirstAt(flat, ItemOrder[k])

TxLists == {l \in UNION {[1..n -> TxPool] : n \in 0..MaxTrans} : FirstUseOrdered(l)}

\* leaked counts the nodes that are still allocated after the tree that
\* created them has been dropped.
VARIABLES transactions, min_support, min_confidence, pc, fp_tree, stack,
          result, rules, run, prev, leaked

vars == <<transactions, min_support, min_confidence, pc, fp_tree, stack,
          result, rules, run, prev, leaked>>

NoPrev == [transactions |-> <<>>, itemsets |-> {}, rules |-> {}]

InitWith(lists) ==
    /\ transactions \in lists
    /\ min_support = 0
    /\ min_confidence = <<0, 1>>
    /\ pc = "start"
    /\ fp_tree = FPTree_new
    /\ stack = <<>>
    /\ result = <<>>
    /\ rules = <<>>
    /\ run = 1
    /\ prev = NoPrev
    /\ leaked = 0

Init == InitWith(TxLists)

\* The items of S in ascending order (Vec::sort on chars).
SortItems(S) == SelectSeq(ItemOrder, LAMBDA i : i \in S)

\* The lists whose transactions list their items in ascending order, as the
\* transactions of main do.
CanonLists == UNION {[1..n -> {SortItems(S) : S \in SUBSET Items}] : n \in 0..MaxTrans}

InitCanon == InitWith(CanonLists)

\* The transactions of main.
MainTransactions ==
    << <<"a", "b", "c", "d">>,
       <<"b", "c", "d">>,
       <<"a", "e", "f", "g", "h">>,
       <<"b", "c", "d", "e", "g", "j">>,
       <<"b", "c", "d", "e", "f">>,
       <<"a", "f", "g">>,
       <<"a", "i", "j">>,
       <<"a", "b", "e", "h">>,
       <<"f", "g", "h", "i", "j">>,
       <<"e", "f", "h">> >>

InitMain == InitWith({MainTransactions})

\* fp_growth, up to `fp_tree.build(transactions, min_support)`.  A repeated
\* call passes the arguments of the first one.
Build ==
    /\ pc = "start"
    /\ \E frac \in Fracs :
          LET ms == IF run = 1 THEN min_support_count(frac, Len(transactions))
                    ELSE min_support
          IN  /\ min_support' = ms
              /\ fp_tree' = build(FPTree_new, transactions, ms)
    /\ pc' = "built"
    /\ UNCHANGED <<transactions, min_confidence, stack, result, rules, run, prev, leaked>>

\* `fp_tree.mine(min_support)` up to the entry of the first fp_growth call,
\* where sorted_items is computed.
Mine ==
    /\ pc = "built"
    /\ \E sorted_items \in sorted_items_choices(fp_tree.header_table) :
          stack' = <<Frame(fp_tree, <<>>, sorted_items)>>
    /\ result' = <<>>
    /\ pc' = "mining"
    /\ UNCHANGED <<transactions, min_support, min_confidence, fp_tree, rules, run, prev,
                   leaked>>

\* One iteration of the loop of the innermost fp_growth call; when it ends in
\* the recursive call, the new call's sorted_items is computed too.  When it
\* does not, the conditional tree, if one was built, is dropped at the end of
\* the iteration.
fp_growth_iter ==
    /\ pc = "mining"
    /\ stack # <<>>
    /\ LET top == stack[Len(stack)]
       IN  /\ top.sorted_items # <<>>
           /\ LET item == Head(top.sorted_items)
                  support == top.tree.header_table[item].support
                  new_prefix == new_prefix_of(top.prefix, item)
                  base == conditional_pattern_base(top.tree, item)
                  conditional_tree == conditional_tree_of(base, min_support)
                  rest == [stack EXCEPT ![Len(stack)] = next_iteration(@)]
              IN  /\ result' = Append(result, <<new_prefix, support>>)
                  /\ IF base # <<>> /\ DOMAIN conditional_tree.header_table # {}
                     THEN \E sorted_items \in
                               sorted_items_choices(conditional_tree.header_table) :
                             /\ stack' = Append(rest, Frame(conditional_tree, new_prefix,
                                                            sorted_items))
                             /\ leaked' = leaked
                     ELSE /\ stack' = rest
                          /\ leaked' = leaked +
                                (IF base # <<>> THEN left_after_drop(conditional_tree) ELSE 0)
    /\ UNCHANGED <<transactions, min_support, min_confidence, pc, fp_tree, rules, run, prev>>

\* The loop of the innermost call is over: the call returns and its
\* conditional tree is dropped by the caller's iteration; the outermost call
\* runs on the borrowed fp_tree, and its return ends mine.
fp_growth_return ==
    /\ pc = "mining"
    /\ stack # <<>>
    /\ stack[Len(stack)].sorted_items = <<>>
    /\ stack' = SubSeq(stack, 1, Len(stack) - 1)
    /\ pc' = IF Len(stack) = 1 THEN "mined" ELSE "mining"
    /\ leaked' = leaked +
          (IF Len(stack) = 1 THEN 0 ELSE left_after_drop(stack[Len(stack)].tree))
    /\ UNCHANGED <<transactions, min_support, min_confidence, fp_tree, result, rules, run, prev>>

\* `generate_rules(&frequent_itemsets, min_confidence)` and the return of
\* fp_growth, which drops fp_tree.
GenerateRules ==
    /\ pc = "mined"
    /\ \E c \in Confs :
          LET mc == IF run = 1 THEN c ELSE min_confidence
          IN  /\ min_confidence' = mc
              /\ rules' = generate_rules(result, mc)
    /\ pc' = "done"
    /\ leaked' = leaked + left_after_drop(fp_tree)
    /\ UNCHANGED <<transactions, min_support, fp_tree, stack, result, run, prev>>

\* The caller calls fp_growth again: a fresh FPTree, the same arguments.  The
\* itemsets and rules of the call that has returned are kept, as sets.
Returned == [transactions |-> transactions, itemsets |-> ToSet(result),
             rules |-> ToSet(rules)]

CallAgain(next_transactions) ==
    /\ pc = "done"
    /\ run = 1
    /\ prev' = Returned
    /\ run' = 2
    /\ transactions' = next_transactions
    /\ pc' = "start"
    /\ fp_tree' = FPTree_new
    /\ stack' = <<>>
    /\ result' = <<>>
    /\ rules' = <<>>
    /\ UNCHANGED <<min_support, min_confidence, leaked>>

Remine == CallAgain(transactions)

\* s with its elements at positions k and k + 1 exchanged.
SwapAt(s, k) ==
    [j \in 1..Len(s) |-> IF j = k THEN s[k + 1] ELSE IF j = k + 1 THEN s[k] ELSE s[j]]

\* The lists one exchange of neighbours away from lists: two neighbouring
\* transactions, or two neighbouring items of one transaction.  Every
\* permutation of the transactions and of the items inside them is a chain of
\* such exchanges.
Exchanges(lists) ==
    {SwapAt(lists, k) : k \in 1..(Len(lists) - 1)} \cup
    UNION {{[lists EXCEPT ![k] = SwapAt(@, j)] : j \in 1..(Len(lists[k]) - 1)} :
             k \in 1..Len(lists)}

\* The caller calls fp_growth again on the same transactions, listed
\* differently.
MinePermuted == \E l \in Exchanges(transactions) : CallAgain(l)

Next == Build \/ Mine \/ fp_growth_iter \/ fp_growth_return \/ GenerateRules

Spec == Init /\ [][Next]_vars


\* fp_growth on transactions listed in ascending order.
SpecCanon == InitCanon /\ [][Next]_vars

\* fp_growth on the transactions of main.
SpecMain == InitMain /\ [][Next]_vars

\* `for (item, support) in sorted_items` of the innermost call has an item
\* left: ENABLED <<fp_growth_iter>>_vars, as every iteration pushes a record.
IterEnabled ==
    /\ pc = "mining"
    /\ stack # <<>>
    /\ stack[Len(stack)].sorted_items # <<>>

\* mine is sequential code: an iteration or a return that can be taken is
\* taken.  The second conjunct is WF_vars(fp_growth_iter) with its enabling
\* condition written out.
SpecLive ==
    /\ Init /\ [][Next]_vars
    /\ WF_vars(fp_growth_return)
    /\ ([]<>(~IterEnabled) \/ []<><<fp_growth_iter>>_vars)

NextRemine == Next \/ Remine

SpecRemine == Init /\ [][NextRemine]_vars

NextPermuted == Next \/ MinePermuted

SpecPermuted == Init /\ [][NextPermuted]_vars

(***************************************************************************)
(* The Apriori program (src/appriori/src/main.rs)                          *)
(***************************************************************************)
\* `for i in 0..k - 2 { if p[i] != q[i] { can_join = false } }`
can_join(p, q, k) == \A i \in 1..(k - 2) : p[i] = q[i]

\* `subset.remove(i)` for the i-th item of union.
remove(union, i) == SubSeq(union, 1, i - 1) \o SubSeq(union, i + 1, Len(union))

\* `is_valid`: every subset of union with one item removed is in l_prev.
is_valid(union, l_prev) ==
    \A i \in 1..Len(union) : remove(union, i) \in Range(l_prev)

\* The body of the inner loop of generate_candidates for the pair p, q.
joined(p, q, l_prev, k) ==
    LET union == SortItems(Range(p) \cup Range(q))
    IN  IF /\ Len(p) >= k - 1 /\ Len(q) >= k - 1
           /\ can_join(p, q, k)
           /\ p[k - 1] # q[k - 1]
           /\ Len(union) = k
           /\ is_valid(union, l_prev)
        THEN <<union>> ELSE <<>>

\* `for q in l_prev.iter().skip(i + 1)`
RECURSIVE joins_of(_, _, _, _)
joins_of(p, qs, l_prev, k) ==
    IF qs = <<>> THEN <<>>
    ELSE joined(p, Head(qs), l_prev, k) \o joins_of(p, Tail(qs), l_prev, k)

\* `for (i, p) in l_prev.iter().enumerate()` from position i on.
RECURSIVE candidates_from(_, _, _)
candidates_from(l_prev, i, k) ==
    IF i > Len(l_prev) THEN <<>>
    ELSE joins_of(l_prev[i], SubSeq(l_prev, i + 1, Len(l_prev)), l_prev, k)
         \o candidates_from(l_prev, i + 1, k)

generate_candidates(l_prev, k) == candidates_from(l_prev, 1, k)

\* The HashMap from each candidate to the number of transactions (sets of
\* items) that contain all its items.
calculate_support(candidates, sets) ==
    [c \in Range(candidates) |->
        Cardinality({t \in DOMAIN sets : Range(c) \subseteq sets[t]})]

\* `support_counts.get(*c).unwrap_or(&0)`
support_count_of(support_counts, c) ==
    IF c \in DOMAIN support_counts THEN support_counts[c] ELSE 0

\* The candidates are kept only above the minimum count.
get_frequent_itemsets_strict(candidates, support_counts, frac, transaction_count) ==
    SelectSeq(candidates,
              LAMBDA c : support_count_of(support_counts, c) >
                            min_support_count(frac, transaction_count))

\* `min_count = (min_support * transaction_count as f64).ceil() as usize` and
\* the filter of the candidates on it.
get_frequent_itemsets(candidates, support_counts, frac, transaction_count) ==
    SelectSeq(candidates,
              LAMBDA c : support_count_of(support_counts, c) >=
                            min_support_count(frac, transaction_count))

\* `all_support_counts.insert(key, value)` for every entry of support_counts.
insert_counts(all_support_counts, support_counts) ==
    [c \in DOMAIN all_support_counts \cup DOMAIN support_counts |->
        IF c \in DOMAIN support_counts THEN support_counts[c]
        ELSE all_support_counts[c]]

\* `while !l_prev.is_empty()` of apriori, from level k on.
RECURSIVE apriori_levels(_, _, _, _, _, _)
apriori_levels(l_prev, k, all_frequent_itemsets, all_support_counts, sets, frac) ==
    LET done == [all_frequent_itemsets |-> all_frequent_itemsets,
                 all_support_counts |-> all_support_counts]
        candidates == generate_candidates(l_prev, k)
        support_counts == calculate_support(candidates, sets)
        l_k == get_frequent_itemsets(candidates, support_counts, frac, Len(sets))
    IN  IF l_prev = <<>> THEN done
        ELSE IF candidates = <<>> THEN done
        ELSE apriori_levels(l_k, k + 1, all_frequent_itemsets \o l_k,
                            insert_counts(all_support_counts, support_counts),
                            sets, frac)

\* `for mask in 1..(1 << n) - 1`: the non-empty proper subsets of itemset.
apriori_generate_all_subsets(itemset) ==
    [m \in 1..(Pow2(Len(itemset)) - 2) |-> subset_of_mask(itemset, m)]

\* `for antecedent in &subsets` of Apriori's generate_rules.
RECURSIVE apriori_rules_of_subsets(_, _, _, _)
apriori_rules_of_subsets(subsets, itemset, support_counts, c) ==
    IF subsets = <<>> THEN <<>>
    ELSE LET antecedent == Head(subsets)
             consequent == SortItems(Range(itemset) \ Range(antecedent))
             itemset_support == support_count_of(support_counts, itemset)
             antecedent_support == support_count_of(support_counts, antecedent)
             rest == apriori_rules_of_subsets(Tail(subsets), itemset, support_counts, c)
         IN  IF consequent = <<>> THEN rest
             ELSE IF antecedent_support = 0 THEN rest
             ELSE IF meets_confidence(itemset_support, antecedent_support, c)
                  THEN << <<antecedent, consequent,
                            confidence_of(itemset_support, antecedent_support)>> >> \o rest
                  ELSE rest

\* `for itemset in frequent_itemsets` of Apriori's generate_rules.
RECURSIVE apriori_generate_rules(_, _, _)
apriori_generate_rules(frequent_itemsets, support_counts, c) ==
    IF frequent_itemsets = <<>> THEN <<>>
    ELSE LET itemset == Head(frequent_itemsets)
             rest == apriori_generate_rules(Tail(frequent_itemsets), support_counts, c)
         IN  IF Len(itemset) <= 1 THEN rest
             ELSE apriori_rules_of_subsets(apriori_generate_all_subsets(itemset),
                                           itemset, support_counts, c) \o rest

\* apriori(transactions, min_support, min_confidence) on transactions given
\* as sets of items.
apriori(sets, frac, c) ==
    LET unique_items == UNION {sets[t] : t \in DOMAIN sets}
        sorted_singletons == SortItems(unique_items)
        singleton_candidates ==
            [i \in 1..Len(sorted_singletons) |-> <<sorted_singletons[i]>>]
        singleton_counts == calculate_support(singleton_candidates, sets)
        l_1 == get_frequent_itemsets(singleton_candidates, singleton_counts,
                                     frac, Len(sets))
        mined == apriori_levels(l_1, 2, l_1, singleton_counts, sets, frac)
    IN  [all_frequent_itemsets |-> mined.all_frequent_itemsets,
         all_support_counts |-> mined.all_support_counts,
         rules |-> apriori_generate_rules(mined.all_frequent_itemsets,
                                          mined.all_support_counts, c)]

\* main of the Apriori program runs on the transactions, as sets, with the
\* arguments of the fp_growth call that has returned; its itemsets are paired
\* with `support_counts.get(itemset).unwrap_or(&0)` as main prints them.
RunApriori ==
    /\ pc = "done"
    /\ run = 1
    /\ \E frac \in Fracs :
          /\ min_support_count(frac, Len(transactions)) = min_support
          /\ LET sets == [t \in DOMAIN transactions |-> Range(transactions[t])]
                 out == apriori(sets, frac, min_confidence)
             IN  prev' = [transactions |-> transactions,
                          itemsets |-> {<<c, support_count_of(out.all_support_counts, c)>> :
                                           c \in Range(out.all_frequent_itemsets)},
                          rules |-> ToSet(out.rules)]
    /\ run' = 2
    /\ UNCHANGED <<transactions, min_support, min_confidence, pc, fp_tree, stack,
                   result, rules, leaked>>

\* The lists build is called with the second time: the same transactions, or
\* all but the last of them.
RebuildLists(lists) ==
    {lists} \cup (IF lists = <<>> THEN {} ELSE {SubSeq(lists, 1, Len(lists) - 1)})

\* `fp_tree.build(&transactions, min_support)` is called a second time on the
\* tree that is already built.
Rebuild ==
    /\ pc = "built"
    /\ run = 1
    /\ \E next_transactions \in RebuildLists(transactions) :
          /\ transactions' = next_transactions
          /\ fp_tree' = build(fp_tree, next_transactions, min_support)
    /\ run' = 2
    /\ UNCHANGED <<min_support, min_confidence, pc, stack, result, rules, prev, leaked>>

NextRebuild == Next \/ Rebuild

SpecRebuild == Init /\ [][NextRebuild]_vars

NextApriori == Next \/ RunApriori

\* Both programs on transactions listed in ascending order.
SpecApriori == InitCanon /\ [][NextApriori]_vars

(***************************************************************************)
(* Properties                                                              *)
(***************************************************************************)
\* mine has returned.
Mined == pc \in {"mined", "done"}

\* The number of input transactions that contain every item of S.
TrueSupport(S) ==
    Cardinality({k \in 1..Len(transactions) : S \subseteq Range(transactions[k])})

Alphabet == UNION {Range(transactions[k]) : k \in 1..Len(transactions)}

\* Brute force: the non-empty subsets of the alphabet contained in at least
\* min_support transactions.
FrequentSets == {S \in (SUBSET Alphabet) \ {{}} : TrueSupport(S) >= min_support}

\* A list of records read as a set of <<item set, support>> pairs.
AsSets(records) == {<<Range(r[1]), r[2]>> : r \in records}

\* C1: once mine has returned for a min_support >= 1, the item sets of the
\* returned records are exactly the non-empty subsets of the alphabet that at
\* least min_support transactions contain.
C1_Exhaustive ==
    (Mined /\ min_support >= 1) =>
        {Range(r[1]) : r \in ToSet(result)} = FrequentSets

\* C2: every returned record carries the number of transactions that contain
\* its items, and that number is at least min_support.
C2_ExactSupport ==
    (Mined /\ min_support >= 1) =>
        \A r \in ToSet(result) :
            r[2] = TrueSupport(Range(r[1])) /\ r[2] >= min_support

\* C3: no two records of the result list the same set of items.
C3_NoItemsetTwice ==
    Mined => \A i, j \in 1..Len(result) :
                i # j => Range(result[i][1]) # Range(result[j][1])

\* C4: after the transactions, or the items inside one, are listed in another
\* order, build and mine return the same set of <<item set, support>> pairs as
\* before.
C4_TransactionsAreSets ==
    (run = 2 /\ Mined) => AsSets(ToSet(result)) = AsSets(prev.itemsets)

\* Some rule output has antecedent A and consequent B, as sets.
HasRule(A, B) == \E q \in ToSet(rules) : Range(q[1]) = A /\ Range(q[2]) = B

\* C5: generate_rules outputs the rule (A, S minus A), for a returned itemset
\* S of two items or more and a non-empty proper subset A of S, exactly when
\* support(S) / (number of transactions containing A) >= min_confidence, and
\* it outputs no other rule.
C5_RulesCompleteAndSound ==
    pc = "done" =>
        /\ \A r \in ToSet(result) : \A A \in SUBSET Range(r[1]) :
              (Len(r[1]) >= 2 /\ A # {} /\ A # Range(r[1])) =>
                 (HasRule(A, Range(r[1]) \ A)
                    <=> meets_confidence(r[2], TrueSupport(A), min_confidence))
        /\ \A q \in ToSet(rules) : \E r \in ToSet(result) :
              /\ Len(r[1]) >= 2
              /\ Range(q[1]) # {} /\ Range(q[2]) # {}
              /\ Range(q[1]) \cup Range(q[2]) = Range(r[1])
              /\ Range(q[1]) \cap Range(q[2]) = {}
              /\ meets_confidence(r[2], TrueSupport(Range(q[1])), min_confidence)

\* C6: for every returned itemset, every non-empty proper subset that
\* generate_all_subsets enumerates from it is a key of the support map, with
\* a positive support.
C6_LookupNeverMisses ==
    Mined =>
        \A r \in ToSet(result) : \A m \in 1..(Pow2(Len(r[1])) - 2) :
            subset_support_of(support_map_at(result, 1), subset_of_mask(r[1], m)) > 0

\* C7: the confidence of every rule output is greater than 0 and at most 1.
C7_ConfidenceBounds ==
    pc = "done" =>
        \A q \in ToSet(rules) : q[3][1] > 0 /\ q[3][1] <= q[3][2]

\* C8: of two returned records, the one whose items include the other's has
\* the smaller or equal support.
C8_AntiMonotone ==
    Mined =>
        \A r, q \in ToSet(result) :
            Range(r[1]) \subseteq Range(q[1]) => q[2] <= r[2]

\* C9: on an empty transaction list build leaves the header table empty, mine
\* returns no itemset and generate_rules no rule.
C9_EmptyInput ==
    transactions = <<>> =>
        /\ DOMAIN fp_tree.header_table = {}
        /\ result = <<>>
        /\ rules = <<>>

\* fp_growth has returned on the empty transaction list.
C9_Witness == transactions = <<>> /\ pc = "done" /\ min_support = 0

\* C10: a second call on the same transactions with the same min_support and
\* min_confidence returns the same set of records and the same set of rules
\* as the first, however the hash maps are iterated in either call.
C10_RemineDeterministic ==
    /\ (run = 2 /\ Mined) => ToSet(result) = prev.itemsets
    /\ (run = 2 /\ pc = "done") => ToSet(rules) = prev.rules

\* The second call has returned rules for a tree in which two items have the
\* same support, so that the order of the hash map decided the order of
\* sorted_items.
C10_Witness ==
    /\ run = 2 /\ pc = "done"
    /\ rules # <<>>
    /\ \E i, j \in DOMAIN fp_tree.header_table :
          i # j /\ fp_tree.header_table[i].support = fp_tree.header_table[j].support

\* The trees that exist in the current state.
TreesInState == {fp_tree} \cup {stack[k].tree : k \in 1..Len(stack)}

\* The nodes reachable from the nodes of S along the handles they hold.
RECURSIVE ReachableFrom(_, _)
ReachableFrom(nodes, S) ==
    LET more == S \cup UNION {held_by(nodes, n) : n \in S}
    IN  IF more = S THEN S ELSE ReachableFrom(nodes, more)

OwnershipAcyclic(tree) ==
    \A n \in 1..Len(tree.nodes) :
        n \notin ReachableFrom(tree.nodes, held_by(tree.nodes, n))

\* C12: in every tree no node reaches itself along owning handles, and when
\* a tree is dropped every node it created is released.
C12_OwnershipWithoutCycles ==
    /\ \A tree \in TreesInState : OwnershipAcyclic(tree)
    /\ leaked = 0

\* C11: on the transactions of main with minimum count 4 and min_confidence
\* 0.75, fp_growth returns the itemset {b, c, d} with support 4 and [f] with
\* support 5, and the rule {b, c} => {d} with confidence 1.
C11_WorkedScenario ==
    (transactions = MainTransactions /\ min_support = 4 /\ pc = "done") =>
        /\ \E r \in ToSet(result) : Range(r[1]) = {"b", "c", "d"}
        /\ \A r \in ToSet(result) : Range(r[1]) = {"b", "c", "d"} => r[2] = 4
        /\ <<<<"f">>, 5>> \in ToSet(result)
        /\ \E q \in ToSet(rules) :
              Range(q[1]) = {"b", "c"} /\ Range(q[2]) = {"d"} /\ q[3] = <<1, 1>>
        /\ min_confidence = <<3, 4>>

\* fp_growth has returned on the transactions of main for the count 4 that
\* the fraction 0.4 gives.
C11_Witness ==
    /\ transactions = MainTransactions /\ pc = "done"
    /\ min_support = min_support_count(<<2, 5>>, Len(MainTransactions))
    /\ min_support = 4
    /\ Len(result) > 8

\* C13: when every transaction lists its items in ascending order, the
\* result of mine for a min_support >= 1, read as a set of <<item set,
\* support>> pairs, is exactly the set of frequent item sets with their true
\* transaction counts, and no item set appears in two records.
C13_CanonicalCorrect ==
    (Mined /\ min_support >= 1) =>
        /\ AsSets(ToSet(result)) = {<<S, TrueSupport(S)>> : S \in FrequentSets}
        /\ Cardinality({Range(r[1]) : r \in ToSet(result)}) = Len(result)

\* mine has returned an itemset of three items contained in two transactions
\* or more.
C13_Witness ==
    /\ Mined /\ min_support >= 2
    /\ \E r \in ToSet(result) : Len(r[1]) = 3 /\ r[2] >= 2
    /\ \A k \in 1..Len(transactions) :
          transactions[k] = SortItems(Range(transactions[k]))

\* The nodes of the occurrence chain that starts at n, in chain order.
RECURSIVE ChainNodes(_, _)
ChainNodes(nodes, n) ==
    IF n = Nil THEN <<>> ELSE <<n>> \o ChainNodes(nodes, nodes[n].node_link)

RECURSIVE SumCounts(_, _)
SumCounts(nodes, chain) ==
    IF chain = <<>> THEN 0
    ELSE nodes[Head(chain)].count + SumCounts(nodes, Tail(chain))

HeaderMatchesChain(tree, X) ==
    LET chain == ChainNodes(tree.nodes, tree.header_table[X].head)
    IN  /\ tree.header_table[X].support = SumCounts(tree.nodes, chain)
        /\ Range(chain) = {n \in 1..Len(tree.nodes) : tree.nodes[n].item = X}
        /\ Cardinality(Range(chain)) = Len(chain)

\* C14: in every tree whose construction has completed (fp_tree after build,
\* and the conditional tree of every fp_growth call in progress), the support
\* of each header entry is the sum of the counts along the entry's occurrence
\* chain, and the chain visits every node of the item exactly once.
C14_HeaderSupport ==
    \A tree \in TreesInState : \A X \in DOMAIN tree.header_table :
        HeaderMatchesChain(tree, X)

\* A conditional tree under mining holds two nodes of one item.
C14_Witness ==
    /\ pc = "mining"
    /\ \E k \in 2..Len(stack) : \E X \in DOMAIN stack[k].tree.header_table :
          Len(ChainNodes(stack[k].tree.nodes, stack[k].tree.header_table[X].head)) >= 2

\* The pairs <<X, Y>> such that some path of the tree holds item X above
\* item Y.
AboveIn(tree) ==
    UNION {{<<X, tree.nodes[n].item>> :
               X \in Range(path_up(tree.nodes, tree.nodes[n].parent))} :
             n \in 2..Len(tree.nodes)}

\* C15: along every path of every completed tree the items come in
\* non-increasing order of their header support, and no two paths of one tree
\* hold the same two items in opposite orders.
C15_ConsistentPathOrder ==
    \A tree \in TreesInState :
        /\ \A p \in AboveIn(tree) :
              tree.header_table[p[1]].support >= tree.header_table[p[2]].support
        /\ \A p \in AboveIn(tree) : <<p[2], p[1]>> \notin AboveIn(tree)

\* C16: while mine runs, no step changes fp_tree or the tree of a call that
\* stays in progress, the outermost call reads fp_tree itself, and the result
\* list only grows at its end.
C16_MiningReadsOnly ==
    [][pc = "mining" =>
         /\ fp_tree' = fp_tree
         /\ stack[1].tree = fp_tree
         /\ \A k \in 1..Len(stack) :
               k <= Len(stack') =>
                  /\ stack'[k].tree = stack[k].tree
                  /\ stack'[k].prefix = stack[k].prefix
         /\ Len(result') >= Len(result)
         /\ SubSeq(result', 1, Len(result)) = result]_vars

\* A nested call has finished its loop after records were pushed.
C16_Witness ==
    /\ pc = "mining"
    /\ Len(stack) >= 2
    /\ stack[Len(stack)].sorted_items = <<>>
    /\ Len(result) >= 2

\* The header items of the tree of the k-th call in progress.
HeaderItems(k) == DOMAIN stack[k].tree.header_table

\* The item for which the k-th call was made by the call below it.
CalledFor(k) == stack[k].prefix[Len(stack[k].prefix)]

\* Every nested call runs on a tree whose header items are header items of
\* its caller's tree other than the item it was called for, and the depth of
\* the recursion is at most the number of header items of fp_tree.
ShrinkingHeaders ==
    pc = "mining" =>
       /\ \A k \in 2..Len(stack) :
             /\ HeaderItems(k) \subseteq HeaderItems(k - 1) \ {CalledFor(k)}
             /\ Cardinality(HeaderItems(k)) < Cardinality(HeaderItems(k - 1))
       /\ Len(stack) - 1 <= Cardinality(DOMAIN fp_tree.header_table)

\* C17: the header items strictly shrink from each call to the call nested in
\* it, the recursion depth is at most the number of header items of fp_tree,
\* and mine, once called, returns.
C17_ShrinkingTermination ==
    /\ []ShrinkingHeaders
    /\ (pc = "mining" ~> pc = "mined")

\* Calls nested as deep as the alphabet allows.
C17_Witness ==
    /\ pc = "mining"
    /\ Len(stack) = Cardinality(Items)
    /\ Cardinality(HeaderItems(1)) = Cardinality(Items)

\* The node that holds n in its children map (Nil for the root).
OwnerOf(nodes, n) ==
    LET owners == {p \in 1..Len(nodes) :
                      \E i \in DOMAIN nodes[p].children : nodes[p].children[i] = n}
    IN  IF owners = {} THEN Nil ELSE CHOOSE p \in owners : TRUE

\* The items on the way down from just below the root to the owner of n.
RECURSIVE AncestorItems(_, _)
AncestorItems(nodes, n) ==
    LET p == OwnerOf(nodes, n)
    IN  IF p = Nil \/ p = Root THEN <<>>
        ELSE Append(AncestorItems(nodes, p), nodes[p].item)

\* One <<path, weight>> pair for each node of the chain, in chain order.
RECURSIVE PairsOf(_, _)
PairsOf(nodes, chain) ==
    IF chain = <<>> THEN <<>>
    ELSE << <<AncestorItems(nodes, Head(chain)), nodes[Head(chain)].count>> >>
         \o PairsOf(nodes, Tail(chain))

HasPath(pair) == pair[1] # <<>>

\* C18 as stated: the conditional pattern base holds one pair per node of the
\* item's occurrence chain, in chain order, a node directly under the root
\* contributing a pair with an empty path.
C18_BasePerChainNode ==
    \A tree \in TreesInState : \A X \in DOMAIN tree.header_table :
        conditional_pattern_base(tree, X) =
            PairsOf(tree.nodes, ChainNodes(tree.nodes, tree.header_table[X].head))

\* C18 amended: the conditional pattern base holds, in chain order, one pair
\* (ancestor items from just below the root down to the parent, count) for each
\* node of the item's occurrence chain that is not a child of the root; a node
\* directly under the root contributes no pair.
C18_BasePerDeepChainNode ==
    \A tree \in TreesInState : \A X \in DOMAIN tree.header_table :
        conditional_pattern_base(tree, X) =
            SelectSeq(PairsOf(tree.nodes,
                              ChainNodes(tree.nodes, tree.header_table[X].head)),
                      HasPath)

\* A nested call runs for an item whose chain in the caller's tree holds a
\* node directly under the root and a node with two ancestors.
C18_Witness ==
    /\ pc = "mining"
    /\ \E k \in 2..Len(stack) :
          LET nodes == stack[k - 1].tree.nodes
              chain == ChainNodes(nodes, stack[k - 1].tree.header_table[CalledFor(k)].head)
          IN  /\ \E i \in 1..Len(chain) : nodes[chain[i]].parent = Root
              /\ \E i \in 1..Len(chain) : Len(AncestorItems(nodes, chain[i])) >= 2

\* C19: on transactions listed in ascending order and a minimum count >= 1,
\* the records of fp_growth and the frequent itemsets of apriori with their
\* support counts are the same set of <<item set, support>> pairs.
C19_MinersAgree ==
    (pc = "done" /\ run = 2 /\ min_support >= 1) =>
        AsSets(ToSet(result)) = AsSets(prev.itemsets)

\* Both programs have returned an itemset of two items, and two frequent
\* items make an infrequent pair.
C19_Witness ==
    /\ pc = "done" /\ run = 2 /\ min_support >= 2
    /\ \E r \in prev.itemsets : Len(r[1]) = 2
    /\ \E r \in ToSet(result) : Len(r[1]) = 2
    /\ \E S \in SUBSET Alphabet :
          /\ Cardinality(S) = 2
          /\ TrueSupport(S) < min_support
          /\ \A i \in S : TrueSupport({i}) >= min_support

\* C20: after a second build on the same FPTree, the tree is the tree that one
\* build on a fresh FPTree makes from the same arguments.
C20_BuildResets ==
    (pc = "built" /\ run = 2) =>
        fp_tree = build(FPTree_new, transactions, min_support)

====
